---- MODULE Spec2Model ----
(***************************************************************************)
(* Model of the Monte Carlo driver compute_integral                        *)
(* (src/modules/compute_integral.h): the tracer selectors, the jackknife   *)
(* product-weight tables, the nested i/j/k/l draw loops run by every       *)
(* OpenMP thread, the critical reduction section and the final report.     *)
(* Grid, RandomDraws and Integrals are not part of compute_integral.h;     *)
(* their operations are modelled from their documented contracts.          *)
(***************************************************************************)
EXTENDS Integers, Sequences, FiniteSets, TLC

\* ------------------------------------------------------------------ bounds
\* max_loops of the scenario with the full draw tables
MaxLoopsDraw == 1
\* max_loops of the short two-threaded scenario
MaxLoopsPar == 2
\* max_loops of the long single-threaded scenario
MaxLoopsOne == 11
\* max_loops of the long two-threaded scenario
MaxLoopsTwo == 21
\* number of jackknife regions (n_JK_filled) of the constructor scenarios
MaxJK == 2
\* Largest seed and the outer iterations of the runs compared under one seed.
MaxSeed == 2
MaxLoopsSeed == 2

\* if (convergence_counter==10)
ConvergenceLimit == 10

\* ------------------------------------------------------------ input data
\* A Grid on a line of cells: c[id] = (start, np, np1, np2), np1 and np2 the
\* cell's particles in the two partitions of the tracer; p = particle weights;
\* np, np1, np2 of the grid the totals over its cells.
Cell(start, np1, np2) == [start |-> start, np |-> np1 + np2, np1 |-> np1, np2 |-> np2]

\* three cells, the middle one empty; particles 0,1 in cell 0, particle 2 in cell 2
GridFull ==
  [ncell |-> 3,
   c |-> [id \in 0..2 |-> CASE id = 0 -> Cell(0, 1, 1) [] id = 1 -> Cell(2, 0, 0) [] OTHER -> Cell(2, 1, 0)],
   w |-> [pid \in 0..2 |-> IF pid = 1 THEN 2 ELSE 1],
   filled |-> <<0, 2>>, nf |-> 2, np |-> 3, np1 |-> 2, np2 |-> 1, maxnp |-> 2]

\* one cell holding one particle
GridOne ==
  [ncell |-> 1,
   c |-> [id \in 0..0 |-> Cell(0, 1, 0)],
   w |-> [pid \in 0..0 |-> 1],
   filled |-> <<0>>, nf |-> 1, np |-> 1, np1 |-> 1, np2 |-> 0, maxnp |-> 1]

\* one cell holding two particles
GridTwo ==
  [ncell |-> 1,
   c |-> [id \in 0..0 |-> Cell(0, 1, 1)],
   w |-> [pid \in 0..1 |-> 1],
   filled |-> <<0>>, nf |-> 1, np |-> 2, np1 |-> 1, np2 |-> 1, maxnp |-> 2]

\* one cell holding three particles
GridThree ==
  [ncell |-> 1,
   c |-> [id \in 0..0 |-> Cell(0, 2, 1)],
   w |-> [pid \in 0..2 |-> 1],
   filled |-> <<0>>, nf |-> 1, np |-> 3, np1 |-> 2, np2 |-> 1, maxnp |-> 3]

\* RandomDraws: the supports of the 1/r^2 draw and of the xi draw
DrawsFull == [cube |-> {-1, 0, 2}, xi |-> {-2, 0, 1}]
DrawsZero == [cube |-> {0}, xi |-> {0}]
DrawsEdge == [cube |-> {0, 1}, xi |-> {0, 1}]
AllDraws(rd) == <<rd, rd, rd>>

Params(nthread, max_loops, N2, N3, N4) ==
  [nthread |-> nthread, max_loops |-> max_loops, N2 |-> N2, N3 |-> N3, N4 |-> N4,
   nbin |-> 2, mbin |-> 1]

\* The runs explored: Parameters, the size of the thread team the runtime
\* gives, all_grid, all_rd and the tracer indices.
Scenarios ==
  { [par |-> Params(1, MaxLoopsDraw, 1, 1, 1), num_threads |-> 1,
     all_grid |-> <<GridFull, GridOne>>,
     all_rd |-> AllDraws(DrawsFull), I |-> <<1, 1, 1, 1>>, frob |-> BOOLEAN],
    [par |-> Params(1, 1, 2, 2, 2), num_threads |-> 1,
     all_grid |-> <<GridTwo, GridThree>>,
     all_rd |-> AllDraws(DrawsEdge), I |-> <<1, 1, 1, 2>>, frob |-> BOOLEAN],
    [par |-> Params(2, MaxLoopsPar, 1, 1, 1), num_threads |-> 2,
     all_grid |-> <<GridTwo, GridOne>>,
     all_rd |-> AllDraws(DrawsZero), I |-> <<1, 1, 1, 2>>, frob |-> BOOLEAN],
    [par |-> Params(1, MaxLoopsOne, 1, 1, 1), num_threads |-> 1,
     all_grid |-> <<GridOne, GridOne>>,
     all_rd |-> AllDraws(DrawsZero), I |-> <<1, 1, 1, 1>>, frob |-> BOOLEAN],
    [par |-> Params(2, MaxLoopsTwo, 1, 1, 1), num_threads |-> 2,
     all_grid |-> <<GridOne, GridOne>>,
     all_rd |-> AllDraws(DrawsZero), I |-> <<1, 1, 1, 1>>, frob |-> {TRUE}],
    \* nthread larger than the team the runtime gives
    [par |-> Params(2, MaxLoopsPar, 1, 1, 1), num_threads |-> 1,
     all_grid |-> <<GridTwo, GridOne>>,
     all_rd |-> AllDraws(DrawsZero), I |-> <<1, 1, 1, 1>>, frob |-> BOOLEAN],
    \* a branching factor of zero
    [par |-> Params(1, MaxLoopsDraw, 0, 1, 1), num_threads |-> 1,
     all_grid |-> <<GridTwo, GridOne>>,
     all_rd |-> AllDraws(DrawsZero), I |-> <<1, 1, 1, 1>>, frob |-> BOOLEAN],
    [par |-> Params(1, MaxLoopsDraw, 2, 1, 0), num_threads |-> 1,
     all_grid |-> <<GridTwo, GridOne>>,
     all_rd |-> AllDraws(DrawsZero), I |-> <<1, 1, 1, 1>>, frob |-> BOOLEAN] }

\* ------------------------------------------------------------- selectors
\* which_cf: the correlation function of two tracer indices (index in all_cf)
which_cf(Ia, Ib) ==
  IF (Ia = 1) /\ (Ib = 1) THEN 0
  ELSE IF (Ia = 2) /\ (Ib = 2) THEN 1
  ELSE 2

\* which_rd: the random-draw class of two tracer indices (index in all_rd)
which_rd(Ia, Ib) ==
  IF (Ia = 1) /\ (Ib = 1) THEN 0
  ELSE IF (Ia = 2) /\ (Ib = 2) THEN 1
  ELSE 2

\* which_survey: the survey correction of two tracer indices (LEGENDRE, POWER)
which_survey(Ia, Ib) ==
  IF (Ia = 1) /\ (Ib = 1) THEN 0
  ELSE IF (Ia = 2) /\ (Ib = 2) THEN 1
  ELSE 2

\* which_JK with the second test written with || in place of &&
which_JK_EitherTwo(Ia, Ib) ==
  IF (Ia = 1) /\ (Ib = 1) THEN 0
  ELSE IF (Ia = 2) \/ (Ib = 2) THEN 1
  ELSE 2

\* which_JK: the jackknife weights of two tracer indices (index in all_JK)
which_JK(Ia, Ib) ==
  IF (Ia = 1) /\ (Ib = 1) THEN 0
  ELSE IF (Ia = 2) /\ (Ib = 2) THEN 1
  ELSE 2

\* which_grid: the grid of one tracer index (index in all_grid)
which_grid(Ia) == IF Ia = 1 THEN 0 ELSE 1

\* The objects the constructor selects from (I1,I2,I3,I4).
Select(I) ==
  [grid1 |-> which_grid(I[1]), grid2 |-> which_grid(I[2]),
   grid3 |-> which_grid(I[3]), grid4 |-> which_grid(I[4]),
   cf12 |-> which_cf(I[1], I[2]), cf13 |-> which_cf(I[1], I[3]),
   cf24 |-> which_cf(I[2], I[4]),
   rd13 |-> which_rd(I[1], I[3]), rd24 |-> which_rd(I[2], I[4]),
   survey_corr_12 |-> which_survey(I[1], I[2]),
   survey_corr_23 |-> which_survey(I[2], I[3]),
   survey_corr_34 |-> which_survey(I[3], I[4]),
   JK12 |-> which_JK(I[1], I[2]), JK23 |-> which_JK(I[2], I[3]),
   JK34 |-> which_JK(I[3], I[4])]

NoSelection == [s \in {} |-> 0]

\* ------------------------------------------------------------------ Grid
\* test_cell: the 1D id of a cell, or -1 when it lies outside the grid
test_cell(grid, id_3D) == IF id_3D \in 0..(grid.ncell - 1) THEN id_3D ELSE -1

\* the copy loop running to i <= cell.start + cell.np
particle_list_OneMore(id_1D, grid) ==
  LET cell == grid.c[id_1D]
  IN [no_particles |-> cell.np + 1,
      id_list |-> [n \in 0..cell.np |-> cell.start + n]]

\* particle_list: the number of particles copied and the ids written,
\* id_list[n] = cell.start + n for n < cell.np
particle_list(id_1D, grid) ==
  LET cell == grid.c[id_1D]
  IN [no_particles |-> cell.np,
      id_list |-> [n \in 0..(cell.np - 1) |-> cell.start + n]]

\* the draw without the test for an empty cell
draw_particle_NoEmptyTest(id_3D, grid) ==
  LET id_1D == test_cell(grid, id_3D)
  IN IF id_1D < 0 THEN {[x |-> 1, pid |-> -1, n_particles |-> 0]}
     ELSE IF grid.c[id_1D].np = 0
     THEN {[x |-> 0, pid |-> grid.c[id_1D].start, n_particles |-> 0]}
     ELSE {[x |-> 0, pid |-> k + grid.c[id_1D].start, n_particles |-> grid.c[id_1D].np] :
             k \in 0..(grid.c[id_1D].np - 1)}

\* draw_particle_without_class: the outcomes of one draw from cell id_3D: x = 1 (pid and n_particles untouched) when the cell is outside
\* the grid or empty, else x = 0 with pid = floor(u*np) + start, u in [0,1)
draw_particle_without_class(id_3D, grid) ==
  LET id_1D == test_cell(grid, id_3D)
  IN IF id_1D < 0 THEN {[x |-> 1, pid |-> -1, n_particles |-> 0]}
     ELSE IF grid.c[id_1D].np = 0 THEN {[x |-> 1, pid |-> -1, n_particles |-> 0]}
     ELSE {[x |-> 0, pid |-> k + grid.c[id_1D].start, n_particles |-> grid.c[id_1D].np] :
             k \in 0..(grid.c[id_1D].np - 1)}

\* draw_particle: the same draw, with the same two failures, that also
\* reports the cell's counts in the two partitions (untouched when x = 1)
draw_particle(id_3D, grid) ==
  LET id_1D == test_cell(grid, id_3D)
      none == [x |-> 1, pid |-> -1, n_particles |-> 0,
               n_particles1 |-> 0, n_particles2 |-> 0]
  IN IF id_1D < 0 THEN {none}
     ELSE IF grid.c[id_1D].np = 0 THEN {none}
     ELSE {[x |-> 0, pid |-> k + grid.c[id_1D].start, n_particles |-> grid.c[id_1D].np,
            n_particles1 |-> grid.c[id_1D].np1, n_particles2 |-> grid.c[id_1D].np2] :
             k \in 0..(grid.c[id_1D].np - 1)}

\* ----------------------------------------------------------- RandomDraws
Abs(n) == IF n < 0 THEN -n ELSE n

\* A probability, kept as the fraction n/d.
Prob(n, d) == [n |-> n, d |-> d]

\* Common denominator of the proposal ratios of the draw tables.
PDen == 4

\* random_cubedraw: a cell displacement of the 1/r^2 table and the ratio p > 0
\* of the proposal to uniform sampling, written to *p at every call
random_cubedraw(rd) ==
  {[delta |-> dl, p |-> Prob(Abs(dl) + 1, PDen)] : dl \in rd.cube}

\* random_xidraw: the same for the xi table
random_xidraw(rd) ==
  {[delta |-> dl, p |-> Prob(2 * Abs(dl) + 1, PDen)] : dl \in rd.xi}

\* ------------------------------------------------------------- Integrals
\* Largest cell separation that falls in a radial bin.
RMax == 1

\* An accumulator: the sums c2, c3, c4, the jackknife sum c4j, the accepted
\* counts, and the divisors its sums have been normalized by (<<>> while they
\* are raw sums).
ZeroIntegrals ==
  [c2 |-> 0, c3 |-> 0, c4 |-> 0, c4j |-> 0, cnt2 |-> 0, cnt3 |-> 0, cnt4 |-> 0,
   norm |-> <<>>]

\* the bin of a pair of cells, -1 the sentinel of an out-of-range separation
bin_of(cell_a, cell_b) == IF Abs(cell_a - cell_b) <= RMax THEN 0 ELSE -1

RECURSIVE SumW(_, _)
SumW(w, ids) ==
  IF ids = {} THEN 0
  ELSE LET i == CHOOSE i \in ids : TRUE IN w[i] + SumW(w, ids \ {i})

\* second: folds w_i*w_j of every primary i whose pair (i,j) falls in a bin
second(acc, g1, prim_id, pln, g2, sec_id, pid_j) ==
  LET ids == IF bin_of(prim_id, sec_id) >= 0
             THEN {g1.c[prim_id].start + n : n \in 0..(pln - 1)} ELSE {}
  IN [acc EXCEPT !.c2 = @ + SumW(g1.w, ids) * g2.w[pid_j],
                 !.cnt2 = @ + Cardinality(ids)]

\* third: folds w_i*w_j*w_k of every primary i with a binned (i,j) and (i,k)
third(acc, g1, prim_id, pln, g2, sec_id, pid_j, g3, thi_id, pid_k) ==
  LET ids == IF bin_of(prim_id, sec_id) >= 0 /\ bin_of(prim_id, thi_id) >= 0
             THEN {g1.c[prim_id].start + n : n \in 0..(pln - 1)} ELSE {}
  IN [acc EXCEPT !.c3 = @ + SumW(g1.w, ids) * g2.w[pid_j] * g3.w[pid_k],
                 !.cnt3 = @ + Cardinality(ids)]

\* fourth: folds w_i*w_j*w_k*w_l of every primary i with a binned (i,j) and
\* (k,l); the jackknife build (pw34 is the w_12*w_34 table the accumulator was
\* constructed with, <<>> in the other builds) folds the same product times
\* pw34[bin_ij*nbins + bin_kl] into c4j
fourth(acc, g1, prim_id, pln, g2, sec_id, pid_j, g3, thi_id, pid_k, g4, fou_id, pid_l, pw34, nbins) ==
  LET ids == IF bin_of(prim_id, sec_id) >= 0 /\ bin_of(thi_id, fou_id) >= 0
             THEN {g1.c[prim_id].start + n : n \in 0..(pln - 1)} ELSE {}
      w4 == SumW(g1.w, ids) * g2.w[pid_j] * g3.w[pid_k] * g4.w[pid_l]
  IN [acc EXCEPT !.c4 = @ + w4,
                 !.c4j = IF pw34 = <<>> \/ ids = {} THEN @
                         ELSE @ + w4 * pw34[bin_of(prim_id, sec_id) * nbins
                                            + bin_of(thi_id, fou_id)],
                 !.cnt4 = @ + Cardinality(ids)]

\* sum_ints: adds the arrays of ints element-wise to this; what the arrays
\* of ints had been divided by stays in the sums
sum_ints(this, ints) ==
  [this EXCEPT !.c2 = @ + ints.c2, !.c3 = @ + ints.c3, !.c4 = @ + ints.c4,
               !.c4j = @ + ints.c4j, !.norm = @ \o ints.norm]

\* frobenius_difference_sum: folds ints into this; the deltas it reports are
\* the caller's nondeterministic `converged`
frobenius_difference_sum(this, ints) ==
  [this EXCEPT !.c2 = @ + ints.c2, !.c3 = @ + ints.c3, !.c4 = @ + ints.c4,
               !.c4j = @ + ints.c4j, !.norm = @ \o ints.norm]

\* sum_total_counts: adds the accepted counts of an accumulator to the
\* counters passed by reference
sum_total_counts(acc, counts) ==
  [cnt2 |-> counts.cnt2 + acc.cnt2, cnt3 |-> counts.cnt3 + acc.cnt3,
   cnt4 |-> counts.cnt4 + acc.cnt4]

\* normalize: divides the sums by the grid norms and the sample counts
normalize(acc, pairs, triples, quads) ==
  [acc EXCEPT !.norm = Append(@, <<pairs, triples, quads>>)]

\* reset: zeros all arrays and counts
reset(acc) == ZeroIntegrals

\* ----------------------------------------------------------------- state
VARIABLES
  par,        \* Parameters: nthread, max_loops, N2, N3, N4
  num_threads,\* omp_get_num_threads(): the size of the team of the region
  all_grid,   \* the grids of the two tracers
  all_rd,     \* the RandomDraws classes
  I,          \* <<I1, I2, I3, I4>>
  frob,       \* the outcomes the convergence checks of the run can have
  sel,        \* the objects selected by the constructor
  jk,         \* jackknife build: the product-weight tables under construction
  steps,      \* the seed of the generators; 0 while it is left open
  prev,       \* what an earlier run on the same inputs and seed ended with
  locrng,     \* the seed each generator was set with, as bytes (SpecRng only)
  phase,      \* "construct", "start", "parallel", "aborted", "report", "end"
  next_loop,  \* next n_loops the dynamic schedule hands out
  th,         \* per thread: its position and its private variables
  locint,     \* per thread: Integrals locint
  sumint,     \* Integrals sumint (shared)
  cnt,        \* the class counters cnt2, cnt3, cnt4 (shared)
  TotalTime,  \* STimer TotalTime (shared)
  red,        \* the reduction variables of the enclosing scope
  saved,      \* outputs written: per-loop tags and "full"
  hist        \* history of the run, read by the properties only

vars == <<par, num_threads, all_grid, all_rd, I, frob, sel, jk, steps, prev, locrng, phase, next_loop,
          th, locint, sumint, cnt, TotalTime, red, saved, hist>>

inputs == <<par, num_threads, all_grid, all_rd, I, frob, sel, jk, steps, prev, locrng>>

Threads == 0..(num_threads - 1)

grid1 == all_grid[sel.grid1 + 1]
grid2 == all_grid[sel.grid2 + 1]
grid3 == all_grid[sel.grid3 + 1]
grid4 == all_grid[sel.grid4 + 1]
rd13 == all_rd[sel.rd13 + 1]
rd24 == all_rd[sel.rd24 + 1]

\* ------------------------------------------------------- the generators
\* gsl_rng_uniform returns u in [0,1), kept as a numerator over UDen: the
\* generator is a linear congruential one of modulus UDen.
UDen == 7

\* The generator in state x steps to (3x + 2) mod UDen; the number it gives
\* after k earlier ones.
RECURSIVE gsl_rng_get(_, _)
gsl_rng_get(x, k) ==
  IF k = 0 THEN (3 * x + 2) % UDen ELSE gsl_rng_get((3 * x + 2) % UDen, k - 1)

\* The k-th number of the generator of thread t, set with steps*(thread+1).
gsl_rng_uniform(t, k) == gsl_rng_get(steps * (t + 1), k)

\* What the k-th number of the generator of thread t picks of the outcomes S
\* of a draw, floor(u*|S|) in the order of their field key: any of them while
\* the seed is left open.
Chosen(S, key, t, k) ==
  IF steps = 0 THEN S
  ELSE LET idx == (gsl_rng_uniform(t, k) * Cardinality(S)) \div UDen
       IN {e \in S : Cardinality({f \in S : f[key] < e[key]}) = idx}

\* The numbers one cell draw and its particle draw take from the generator:
\* a draw that stops at the cell test takes none for the particle.
Taken(x) == IF x = 1 THEN 1 ELSE 2

\* The private variables of a thread at the start of the parallel region:
\* the reduction variables start at 0, the other locals are not yet assigned;
\* rng counts the numbers taken from the thread's generator locrng.
ThreadInit ==
  [pc |-> "for", n_loops |-> 0, convergence_counter |-> 0, printtime |-> 0,
   loc_used_pairs |-> 0, loc_used_triples |-> 0, loc_used_quads |-> 0,
   n1 |-> 0, n2 |-> 0, n3 |-> 0, n4 |-> 0,
   prim_id |-> 0, sec_id |-> 0, thi_id |-> 0, fou_id |-> 0,
   pln |-> 0, sln |-> 0, tln |-> 0, fln |-> 0, sln1 |-> 0, sln2 |-> 0,
   x |-> 0, pid_j |-> -1, pid_k |-> -1, pid_l |-> -1,
   p2 |-> Prob(0, 1), p3 |-> Prob(0, 1), p4 |-> Prob(0, 1),
   p21 |-> Prob(0, 1), p22 |-> Prob(0, 1),
   cell_attempt2 |-> 0, cell_attempt3 |-> 0, cell_attempt4 |-> 0,
   used_cell2 |-> 0, used_cell3 |-> 0, used_cell4 |-> 0,
   tot_pairs |-> 0, tot_triples |-> 0, tot_quads |-> 0,
   calls_second |-> 0, calls_third |-> 0, calls_fourth |-> 0,
   x_j |-> 0, x_k |-> 0, x_l |-> 0, rng |-> 0]

RedInit ==
  [convergence_counter |-> 0,
   cell_attempt2 |-> 0, cell_attempt3 |-> 0, cell_attempt4 |-> 0,
   used_cell2 |-> 0, used_cell3 |-> 0, used_cell4 |-> 0,
   tot_pairs |-> 0, tot_triples |-> 0, tot_quads |-> 0]

\* executed, skipped: the outer iterations started so far; folded: the sum of
\* the local accumulators brought to the critical section; checks, converged:
\* the convergence checks made and those that reported convergence;
\* sampled_checks: per thread, the iterations it sampled that end in a check;
\* checked: the iterations in which a convergence check was made
HistInit ==
  [executed |-> {}, skipped |-> {}, folded |-> ZeroIntegrals,
   checks |-> 0, checked |-> {}, converged |-> 0, all_converged |-> TRUE,
   sampled_checks |-> [t \in Threads |-> 0]]

\* The state when the constructor comes to the parallel region.
Init ==
  /\ \E s \in Scenarios :
       /\ par = s.par
       /\ num_threads = s.num_threads
       /\ all_grid = s.all_grid
       /\ all_rd = s.all_rd
       /\ I = s.I
       /\ frob = s.frob
       /\ sel = Select(s.I)
  /\ jk = <<>>
  /\ steps = 0
  /\ prev = <<>>
  /\ locrng = <<>>
  /\ phase = "start"
  /\ next_loop = 0
  /\ th = [t \in Threads |-> ThreadInit]
  /\ locint = [t \in Threads |-> ZeroIntegrals]
  /\ sumint = ZeroIntegrals
  /\ cnt = [cnt2 |-> 0, cnt3 |-> 0, cnt4 |-> 0]
  /\ TotalTime = [running |-> TRUE, laps |-> 0]
  /\ red = RedInit
  /\ saved = [loops |-> {}, twice |-> {}, full |-> 0]
  /\ hist = HistInit

Put(t, r) == th' = [th EXCEPT ![t] = r]

\* -------------------------------------------- start of the parallel region
\* assert(omp_get_num_threads()<=par->nthread)
TeamAccepted(n, p) == n <= p.nthread

\* Entry of the parallel region: the assertion on the size of the team
StartParallel ==
  /\ phase = "start"
  /\ phase' = IF TeamAccepted(num_threads, par) THEN "parallel" ELSE "aborted"
  /\ UNCHANGED <<inputs, next_loop, th, locint, sumint, cnt, TotalTime, red,
                 saved, hist>>

\* ---------------------------------------------------------- the outer loop
\* the loop head without the skip test
SkipLoop_Never(convergence_counter) == FALSE

\* the skip test taken one converged check late
SkipLoop_Late(convergence_counter) == convergence_counter = ConvergenceLimit + 1

\* if (convergence_counter==10) ... continue
SkipLoop(convergence_counter) == convergence_counter = ConvergenceLimit

\* the check made in every outer iteration
IsCheckLoop_EveryLoop(n_loops, p) == TRUE

\* if ((n_loops+1)%par->nthread==0)
IsCheckLoop(n_loops, p) == (n_loops + 1) % p.nthread = 0

\* the quad total without the branching factor N4
LocUsedQuads_NoN4(pln, p) == pln * p.N2 * p.N3

\* the pair total without the branching factor N2
LocUsedPairs_NoN2(pln, p) == pln

\* loc_used_pairs+=pln*par->N2 (and triples, quads)
LocUsedPairs(pln, p) == pln * p.N2

LocUsedTriples(pln, p) == pln * p.N2 * p.N3

LocUsedQuads(pln, p) == pln * p.N2 * p.N3 * p.N4

\* The position a thread reaches when a loop body ends: the loop counter
\* advances and every loop whose condition fails is left, up to the update
\* tot_* += loc_used_* in front of the critical section.
AfterCells(r) ==
  [r EXCEPT !.tot_pairs = @ + r.loc_used_pairs,
            !.tot_triples = @ + r.loc_used_triples,
            !.tot_quads = @ + r.loc_used_quads,
            !.pc = "critical"]

NextN1(r) ==
  LET q == [r EXCEPT !.n1 = @ + 1]
  IN IF q.n1 < grid1.nf THEN [q EXCEPT !.pc = "n1"] ELSE AfterCells(q)

NextN2(r) ==
  LET q == [r EXCEPT !.n2 = @ + 1]
  IN IF q.n2 < par.N2 THEN [q EXCEPT !.pc = "n2"] ELSE NextN1(q)

NextN3(r) ==
  LET q == [r EXCEPT !.n3 = @ + 1]
  IN IF q.n3 < par.N3 THEN [q EXCEPT !.pc = "n3"] ELSE NextN2(q)

NextN4(r) ==
  LET q == [r EXCEPT !.n4 = @ + 1]
  IN IF q.n4 < par.N4 THEN [q EXCEPT !.pc = "n4"] ELSE NextN3(q)

\* The position a thread reaches when it comes to a loop: its first
\* iteration, or past the loop when the condition fails at once.
FirstN4(r) ==
  LET q == [r EXCEPT !.n4 = 0]
  IN IF q.n4 < par.N4 THEN [q EXCEPT !.pc = "n4"] ELSE NextN3(q)

FirstN3(r) ==
  LET q == [r EXCEPT !.n3 = 0]
  IN IF q.n3 < par.N3 THEN [q EXCEPT !.pc = "n3"] ELSE NextN2(q)

FirstN2(r) ==
  LET q == [r EXCEPT !.n2 = 0]
  IN IF q.n2 < par.N2 THEN [q EXCEPT !.pc = "n2"] ELSE NextN1(q)

FirstN1(r) ==
  LET q == [r EXCEPT !.n1 = 0]
  IN IF q.n1 < grid1.nf THEN [q EXCEPT !.pc = "n1"] ELSE AfterCells(q)

\* the skip without its continue: the iteration goes on to the cell loops
SkipIteration_NoContinue(r) == FirstN1([r EXCEPT !.printtime = @ + 1])

\* printtime++; continue: the thread is back at the head of the loop
SkipIteration(r) == [r EXCEPT !.printtime = @ + 1]

\* for (n_loops ...) under omp for schedule(dynamic): the thread takes the
\* next iteration, zeroes its loc_used_* and skips it once converged
ForLoop(t) ==
  /\ phase = "parallel"
  /\ th[t].pc = "for"
  /\ next_loop < par.max_loops
  /\ next_loop' = next_loop + 1
  /\ LET r == [th[t] EXCEPT !.n_loops = next_loop, !.loc_used_pairs = 0,
                            !.loc_used_triples = 0, !.loc_used_quads = 0]
     IN IF SkipLoop(r.convergence_counter)
        THEN /\ Put(t, SkipIteration(r))
             /\ hist' = [hist EXCEPT !.skipped = @ \cup {next_loop}]
        ELSE /\ Put(t, FirstN1(r))
             /\ hist' = [hist EXCEPT
                    !.executed = @ \cup {next_loop},
                    !.sampled_checks[t] =
                       IF IsCheckLoop(next_loop, par) THEN @ + 1 ELSE @]
  /\ UNCHANGED <<inputs, phase, locint, sumint, cnt, TotalTime, red, saved>>

\* no iteration is left: the thread leaves the loop and frees its buffers
ForExit(t) ==
  /\ phase = "parallel"
  /\ th[t].pc = "for"
  /\ next_loop >= par.max_loops
  /\ Put(t, [th[t] EXCEPT !.pc = "done"])
  /\ UNCHANGED <<inputs, phase, next_loop, locint, sumint, cnt, TotalTime, red,
                 saved, hist>>

\* ------------------------------------------------------- the draw loops
\* for (n1 ...): the primary cell, its particle list and the sample totals
PrimaryCell(t) ==
  /\ th[t].pc = "n1"
  /\ LET prim_id_1D == grid1.filled[th[t].n1 + 1]
         pln == particle_list(prim_id_1D, grid1).no_particles
         r == [th[t] EXCEPT !.prim_id = prim_id_1D, !.pln = pln]
     IN IF pln = 0
        THEN Put(t, NextN1(r))
        ELSE Put(t, FirstN2([r EXCEPT
               !.loc_used_pairs = @ + LocUsedPairs(pln, par),
               !.loc_used_triples = @ + LocUsedTriples(pln, par),
               !.loc_used_quads = @ + LocUsedQuads(pln, par)]))
  /\ UNCHANGED <<inputs, phase, next_loop, locint, sumint, cnt, TotalTime, red,
                 saved, hist>>

\* the attempt counter left as it is
Attempt_Dropped(cell_attempt) == cell_attempt

\* cell_attemptK+=1
Attempt(cell_attempt) == cell_attempt + 1

\* if(x==1) continue
DrawFailed(x) == x = 1

\* the j/k collision test left out
Collision3_Never(pid_j, pid_k) == FALSE

\* if(pid_j==pid_k) continue
Collision3(pid_j, pid_k) == pid_j = pid_k

\* the l collision test against pid_j only
Collision4_OnlyJ(pid_j, pid_k, pid_l) == pid_l = pid_j

\* if((pid_l==pid_j)||(pid_l==pid_k)) continue
Collision4(pid_j, pid_k, pid_l) == (pid_l = pid_j) \/ (pid_l = pid_k)

\* the j/k probability composed without the factor p2
UpdateP3_NoP2(p3, p2, tln) == Prob(p3.n, p3.d * tln)

\* p21=p2/(grid1->np1*(double)sln1), p22=p2/(grid1->np2*(double)sln2): the
\* quotient of p2 by the partition's divisor; a denominator 0 is a division
\* of the positive p2 by zero
PartitionP(p2, np12, sln12) == Prob(p2.n, p2.d * np12 * sln12)

\* p2*=1./(grid1->np*(double)sln)
UpdateP2(p2, np, sln) == Prob(p2.n, p2.d * np * sln)

\* p3*=p2/(double)tln
UpdateP3(p3, p2, tln) == Prob(p3.n * p2.n, p3.d * p2.d * tln)

\* p4*=p3/(double)fln
UpdateP4(p4, p3, fln) == Prob(p4.n * p3.n, p4.d * p3.d * fln)

\* for (n2 ...): one draw of a j cell and particle, and the kernel second
DrawJ(t) ==
  /\ th[t].pc = "n2"
  /\ \E dr \in Chosen(random_cubedraw(rd13), "delta", t, th[t].rng) :
     \E d \in Chosen(draw_particle(th[t].prim_id + dr.delta, grid2),
                      "pid", t, th[t].rng + 1) :
       LET r == [th[t] EXCEPT !.cell_attempt2 = Attempt(@), !.rng = @ + Taken(d.x),
                              !.sec_id = th[t].prim_id + dr.delta, !.x = d.x,
                              !.x_j = d.x, !.p2 = dr.p]
       IN IF DrawFailed(d.x)
          THEN /\ Put(t, NextN2(r))
               /\ UNCHANGED locint
          ELSE /\ Put(t, FirstN3([r EXCEPT !.pid_j = d.pid, !.sln = d.n_particles,
                                           !.sln1 = d.n_particles1,
                                           !.sln2 = d.n_particles2,
                                           !.p21 = PartitionP(r.p2, grid1.np1, d.n_particles1),
                                           !.p22 = PartitionP(r.p2, grid1.np2, d.n_particles2),
                                           !.p2 = UpdateP2(@, grid1.np, d.n_particles),
                                           !.used_cell2 = @ + 1,
                                           !.calls_second = @ + 1]))
               /\ locint' = [locint EXCEPT ![t] =
                    second(@, grid1, r.prim_id, r.pln, grid2, r.sec_id, d.pid)]
  /\ UNCHANGED <<inputs, phase, next_loop, sumint, cnt, TotalTime, red, saved, hist>>

\* for (n3 ...): one draw of a k cell and particle, and the kernel third
DrawK(t) ==
  /\ th[t].pc = "n3"
  /\ \E dr \in Chosen(random_xidraw(rd13), "delta", t, th[t].rng) :
     \E d \in Chosen(draw_particle_without_class(th[t].prim_id + dr.delta, grid3),
                      "pid", t, th[t].rng + 1) :
       LET r == [th[t] EXCEPT !.cell_attempt3 = Attempt(@), !.rng = @ + Taken(d.x),
                              !.thi_id = th[t].prim_id + dr.delta, !.x = d.x,
                              !.x_k = d.x, !.p3 = dr.p]
       IN IF DrawFailed(d.x)
          THEN /\ Put(t, NextN3(r))
               /\ UNCHANGED locint
          ELSE IF Collision3(r.pid_j, d.pid)
          THEN /\ Put(t, NextN3([r EXCEPT !.pid_k = d.pid, !.tln = d.n_particles]))
               /\ UNCHANGED locint
          ELSE /\ Put(t, FirstN4([r EXCEPT !.pid_k = d.pid, !.tln = d.n_particles,
                                           !.p3 = UpdateP3(@, r.p2, d.n_particles),
                                           !.used_cell3 = @ + 1,
                                           !.calls_third = @ + 1]))
               /\ locint' = [locint EXCEPT ![t] =
                    third(@, grid1, r.prim_id, r.pln, grid2, r.sec_id, r.pid_j,
                          grid3, r.thi_id, d.pid)]
  /\ UNCHANGED <<inputs, phase, next_loop, sumint, cnt, TotalTime, red, saved, hist>>

\* for (n4 ...): one draw of an l cell and particle, and the kernel fourth
DrawL(t) ==
  /\ th[t].pc = "n4"
  /\ \E dr \in Chosen(random_xidraw(rd24), "delta", t, th[t].rng) :
     \E d \in Chosen(draw_particle_without_class(th[t].sec_id + dr.delta, grid4),
                      "pid", t, th[t].rng + 1) :
       LET r == [th[t] EXCEPT !.cell_attempt4 = Attempt(@), !.rng = @ + Taken(d.x),
                              !.fou_id = th[t].sec_id + dr.delta, !.x = d.x,
                              !.x_l = d.x, !.p4 = dr.p]
       IN IF DrawFailed(d.x)
          THEN /\ Put(t, NextN4(r))
               /\ UNCHANGED locint
          ELSE IF Collision4(r.pid_j, r.pid_k, d.pid)
          THEN /\ Put(t, NextN4([r EXCEPT !.pid_l = d.pid, !.fln = d.n_particles]))
               /\ UNCHANGED locint
          ELSE /\ Put(t, NextN4([r EXCEPT !.pid_l = d.pid, !.fln = d.n_particles,
                                          !.p4 = UpdateP4(@, r.p3, d.n_particles),
                                          !.used_cell4 = @ + 1,
                                          !.calls_fourth = @ + 1]))
               /\ locint' = [locint EXCEPT ![t] =
                    fourth(@, grid1, r.prim_id, r.pln, grid2, r.sec_id, r.pid_j,
                           grid3, r.thi_id, r.pid_k, grid4, r.fou_id, d.pid,
                           IF jk = <<>> THEN <<>> ELSE jk.product_weights12_34,
                           par.nbin * par.mbin)]
  /\ UNCHANGED <<inputs, phase, next_loop, sumint, cnt, TotalTime, red, saved, hist>>

\* -------------------------------------------------- the critical section
InCritical(pc) == pc \in {"sum_ints", "save"}

\* the reduction section without mutual exclusion
MayEnter_Always(t) == TRUE

\* a reduction section whose lock is never granted
MayEnter_Never(t) == FALSE

\* #pragma omp critical: a thread enters only while no other thread is inside
MayEnter(t) == \A u \in Threads \ {t} : ~InCritical(th[u].pc)

\* Entry of the critical section and, every nthread-th loop, the timer
\* reading and the convergence check
Frobenius(t) ==
  /\ th[t].pc = "critical"
  /\ MayEnter(t)
  /\ IF IsCheckLoop(th[t].n_loops, par)
     THEN \E converged \in frob :
            /\ TotalTime' = [TotalTime EXCEPT !.laps = @ + 1]
            /\ sumint' = frobenius_difference_sum(sumint, locint[t])
            /\ Put(t, [th[t] EXCEPT
                   !.convergence_counter = IF converged THEN @ + 1 ELSE @,
                   !.pc = "sum_ints"])
            /\ hist' = [hist EXCEPT
                   !.folded = sum_ints(@, locint[t]),
                   !.checks = @ + 1,
                   !.checked = @ \cup {th[t].n_loops},
                   !.converged = IF converged THEN @ + 1 ELSE @,
                   !.all_converged = @ /\ converged]
     ELSE /\ Put(t, [th[t] EXCEPT !.pc = "sum_ints"])
          /\ hist' = [hist EXCEPT !.folded = sum_ints(@, locint[t])]
          /\ UNCHANGED <<TotalTime, sumint>>
  /\ UNCHANGED <<inputs, phase, next_loop, locint, cnt, red, saved>>

\* sumint.sum_ints(&locint)
SumInts(t) ==
  /\ th[t].pc = "sum_ints"
  /\ sumint' = sum_ints(sumint, locint[t])
  /\ Put(t, [th[t] EXCEPT !.pc = "save"])
  /\ UNCHANGED <<inputs, phase, next_loop, locint, cnt, TotalTime, red, saved, hist>>

\* the local accumulator carried over to the next iteration
ResetLocal_Skipped(acc) == acc

\* locint.reset()
ResetLocal(acc) == reset(acc)

\* locint.normalize, save_integrals(n_loops), sum_total_counts, reset, and
\* the end of the critical section and of the iteration
SaveLoop(t) ==
  /\ th[t].pc = "save"
  /\ LET out == normalize(locint[t], th[t].loc_used_pairs, th[t].loc_used_triples,
                          th[t].loc_used_quads)
     IN /\ saved' = [saved EXCEPT
               !.loops = @ \cup {th[t].n_loops},
               !.twice = IF th[t].n_loops \in saved.loops
                         THEN @ \cup {th[t].n_loops} ELSE @]
        /\ cnt' = sum_total_counts(out, cnt)
        /\ locint' = [locint EXCEPT ![t] = ResetLocal(out)]
  /\ Put(t, [th[t] EXCEPT !.pc = "for"])
  /\ UNCHANGED <<inputs, phase, next_loop, sumint, TotalTime, red, hist>>

\* ------------------------------------------- end of the parallel region
RECURSIVE SumOver(_, _, _)
SumOver(f, field, ts) ==
  IF ts = {} THEN 0
  ELSE LET t == CHOOSE t \in ts : TRUE IN f[t][field] + SumOver(f, field, ts \ {t})

ReductionFields ==
  {"convergence_counter", "cell_attempt2", "cell_attempt3", "cell_attempt4",
   "used_cell2", "used_cell3", "used_cell4", "tot_pairs", "tot_triples", "tot_quads"}

\* a region left as soon as one thread has finished
TeamDone_Any == \E t \in Threads : th[t].pc = "done"

\* the barrier at the end of the parallel region
TeamDone == \A t \in Threads : th[t].pc = "done"

\* reduction(+:...): the private copies are added to the original variables
EndParallel ==
  /\ phase = "parallel"
  /\ TeamDone
  /\ red' = [f \in ReductionFields |-> red[f] + SumOver(th, f, Threads)]
  /\ phase' = "report"
  /\ UNCHANGED <<inputs, next_loop, th, locint, sumint, cnt, TotalTime, saved, hist>>

\* TotalTime.Stop, sumint.normalize, the report, save_integrals("full")
Report ==
  /\ phase = "report"
  /\ TotalTime' = [TotalTime EXCEPT !.running = FALSE]
  /\ sumint' = normalize(sumint, red.tot_pairs, red.tot_triples, red.tot_quads)
  /\ saved' = [saved EXCEPT !.full = @ + 1]
  /\ phase' = "end"
  /\ UNCHANGED <<inputs, next_loop, th, locint, cnt, red, hist>>

\* ------------------------------------- the constructor (JACKKNIFE build)
\* JK_weights object k of all_JK: weights[reg*nbins + bin] and the stored
\* table product_weights[bin_a*nbins + bin_b] = sum over reg of w[reg,a]*w[reg,b]
JKWeights(k, nbins) ==
  LET w == [i \in 0..(MaxJK * nbins - 1) |-> (k + 1) * ((i \div nbins) + 1) + (i % nbins)]
      RECURSIVE Prod(_, _)
      Prod(i, reg) ==
        IF reg = 0 THEN 0
        ELSE Prod(i, reg - 1)
             + w[(reg - 1) * nbins + (i \div nbins)] * w[(reg - 1) * nbins + (i % nbins)]
  IN [n_JK_filled |-> MaxJK, weights |-> w,
      product_weights |-> [i \in 0..(nbins * nbins - 1) |-> Prod(i, MaxJK)]]

\* The contents posix_memalign can leave in one entry of a fresh table.
Garbage == {0, 1}

JKInit ==
  [pc |-> "select", x |-> 0, partial_bin |-> 0,
   all_JK |-> [k \in 0..2 |-> JKWeights(k, 2)],
   product_weights12_12 |-> <<>>, product_weights12_34 |-> <<>>,
   product_weights12_23 |-> <<>>, fresh34 |-> FALSE, fresh23 |-> FALSE]

\* the test without its second alternative
Reuse12_34_SameOrder(i) == (i[1] = i[3]) /\ (i[2] = i[4])

\* if(((I1==I3)&(I2==I4))||((I1==I4)&(I2==I3)))
Reuse12_34(i) == ((i[1] = i[3]) /\ (i[2] = i[4])) \/ ((i[1] = i[4]) /\ (i[2] = i[3]))

\* if(I1==I3)
Reuse12_23(i) == i[1] = i[3]

\* One pass of the loop over x: for every (bin_a, bin_b),
\* table[bin_a*nbins + bin_b] += w12[partial_bin + bin_a] * wxy[partial_bin + bin_b]
FillRegion(table, w12, wxy, partial_bin, nbins) ==
  [i \in DOMAIN table |->
     table[i] + w12[partial_bin + (i \div nbins)] * wxy[partial_bin + (i % nbins)]]

\* The selection of grids, correlation functions, draw classes and weights
Construct ==
  /\ phase = "construct"
  /\ jk.pc = "select"
  /\ sel' = Select(I)
  /\ jk' = [jk EXCEPT !.pc = "pw34",
                      !.product_weights12_12 =
                         jk.all_JK[which_JK(I[1], I[2])].product_weights]
  /\ UNCHANGED <<steps, prev, locrng, par, num_threads, all_grid, all_rd, I, frob, phase, next_loop, th, locint,
                 sumint, cnt, TotalTime, red, saved, hist>>

\* w_12*w_34: the stored table of JK12, or a freshly allocated one
ProductWeights12_34 ==
  /\ phase = "construct"
  /\ jk.pc = "pw34"
  /\ IF Reuse12_34(I)
     THEN jk' = [jk EXCEPT !.product_weights12_34 = jk.all_JK[sel.JK12].product_weights,
                           !.pc = "pw23"]
     ELSE \E mem \in [0..(par.nbin * par.mbin * par.nbin * par.mbin - 1) -> Garbage] :
            jk' = [jk EXCEPT !.product_weights12_34 = mem, !.fresh34 = TRUE,
                             !.x = 0, !.partial_bin = 0,
                             !.pc = IF jk.all_JK[sel.JK12].n_JK_filled > 0
                                    THEN "fill34" ELSE "pw23"]
  /\ UNCHANGED <<steps, prev, locrng, par, num_threads, all_grid, all_rd, I, frob, sel, phase, next_loop, th, locint,
                 sumint, cnt, TotalTime, red, saved, hist>>

\* for (x ...) of the w_12*w_34 table: one region
Fill12_34 ==
  /\ phase = "construct"
  /\ jk.pc = "fill34"
  /\ LET nbins == par.nbin * par.mbin
         JK12 == jk.all_JK[sel.JK12]
         JK34 == jk.all_JK[sel.JK34]
     IN jk' = [jk EXCEPT
          !.product_weights12_34 =
             FillRegion(@, JK12.weights, JK34.weights, jk.partial_bin, nbins),
          !.partial_bin = @ + nbins,
          !.x = @ + 1,
          !.pc = IF jk.x + 1 < JK12.n_JK_filled THEN "fill34" ELSE "pw23"]
  /\ UNCHANGED <<steps, prev, locrng, par, num_threads, all_grid, all_rd, I, frob, sel, phase, next_loop, th, locint,
                 sumint, cnt, TotalTime, red, saved, hist>>

\* w_12*w_23: the stored table of JK12, or a freshly allocated one
ProductWeights12_23 ==
  /\ phase = "construct"
  /\ jk.pc = "pw23"
  /\ IF Reuse12_23(I)
     THEN /\ jk' = [jk EXCEPT !.product_weights12_23 = jk.all_JK[sel.JK12].product_weights,
                              !.pc = "done"]
          /\ phase' = "constructed"
     ELSE \E mem \in [0..(par.nbin * par.mbin * par.nbin * par.mbin - 1) -> Garbage] :
            /\ jk' = [jk EXCEPT !.product_weights12_23 = mem, !.fresh23 = TRUE,
                                !.x = 0, !.partial_bin = 0,
                                !.pc = IF jk.all_JK[sel.JK12].n_JK_filled > 0
                                       THEN "fill23" ELSE "done"]
            /\ phase' = IF jk.all_JK[sel.JK12].n_JK_filled > 0
                        THEN phase ELSE "constructed"
  /\ UNCHANGED <<steps, prev, locrng, par, num_threads, all_grid, all_rd, I, frob, sel, next_loop, th, locint,
                 sumint, cnt, TotalTime, red, saved, hist>>

\* for (x ...) of the w_12*w_23 table: one region
Fill12_23 ==
  /\ phase = "construct"
  /\ jk.pc = "fill23"
  /\ LET nbins == par.nbin * par.mbin
         JK12 == jk.all_JK[sel.JK12]
         JK23 == jk.all_JK[sel.JK23]
         last == ~(jk.x + 1 < JK12.n_JK_filled)
     IN /\ jk' = [jk EXCEPT
             !.product_weights12_23 =
                FillRegion(@, JK12.weights, JK23.weights, jk.partial_bin, nbins),
             !.partial_bin = @ + nbins,
             !.x = @ + 1,
             !.pc = IF last THEN "done" ELSE "fill23"]
        /\ phase' = IF last THEN "constructed" ELSE phase
  /\ UNCHANGED <<steps, prev, locrng, par, num_threads, all_grid, all_rd, I, frob, sel, next_loop, th, locint,
                 sumint, cnt, TotalTime, red, saved, hist>>

\* The constructor up to the parallel region, for every tracer combination.
InitCtor ==
  /\ par = Params(1, 1, 1, 1, 1)
  /\ num_threads = 1
  /\ all_grid = <<GridOne, GridOne>>
  /\ all_rd = AllDraws(DrawsZero)
  /\ I \in {<<i1, i2, i3, i4>> : i1 \in 1..2, i2 \in 1..2, i3 \in 1..2, i4 \in 1..2}
  /\ frob = BOOLEAN
  /\ sel = NoSelection
  /\ jk = JKInit
  /\ steps = 0
  /\ prev = <<>>
  /\ locrng = <<>>
  /\ phase = "construct"
  /\ next_loop = 0
  /\ th = [t \in Threads |-> ThreadInit]
  /\ locint = [t \in Threads |-> ZeroIntegrals]
  /\ sumint = ZeroIntegrals
  /\ cnt = [cnt2 |-> 0, cnt3 |-> 0, cnt4 |-> 0]
  /\ TotalTime = [running |-> FALSE, laps |-> 0]
  /\ red = RedInit
  /\ saved = [loops |-> {}, twice |-> {}, full |-> 0]
  /\ hist = HistInit

NextCtor ==
  \/ Construct
  \/ ProductWeights12_34
  \/ Fill12_34
  \/ ProductWeights12_23
  \/ Fill12_23

SpecCtor == InitCtor /\ [][NextCtor]_vars

Next ==
  \/ StartParallel
  \/ \E t \in Threads : ForLoop(t)
  \/ \E t \in Threads : ForExit(t)
  \/ \E t \in Threads : PrimaryCell(t)
  \/ \E t \in Threads : DrawJ(t)
  \/ \E t \in Threads : DrawK(t)
  \/ \E t \in Threads : DrawL(t)
  \/ \E t \in Threads : Frobenius(t)
  \/ \E t \in Threads : SumInts(t)
  \/ \E t \in Threads : SaveLoop(t)
  \/ EndParallel
  \/ Report

Spec == Init /\ [][Next]_vars

\* ------------------------------------ two runs on one input and one seed
\* The values dist(urandom) can give.
Seeds == 1..MaxSeed

\* The inputs of the runs compared: one thread, a jackknife build, tracer
\* combinations that reuse the stored product weights or allocate fresh
\* tables, and convergence checks of a fixed outcome.
SeedScenarios ==
  { [par |-> Params(1, MaxLoopsSeed, 1, 2, 2), I |-> i, frob |-> {c}] :
      i \in {<<1, 1, 1, 1>>, <<1, 2, 2, 1>>, <<1, 1, 2, 2>>}, c \in BOOLEAN }

InitSeed ==
  /\ \E s \in SeedScenarios :
       /\ par = s.par
       /\ I = s.I
       /\ frob = s.frob
  /\ num_threads = 1
  /\ all_grid = <<GridThree, GridThree>>
  /\ all_rd = AllDraws(DrawsEdge)
  /\ sel = NoSelection
  /\ jk = JKInit
  /\ steps = 0
  /\ prev = <<>>
  /\ locrng = <<>>
  /\ phase = "construct"
  /\ next_loop = 0
  /\ th = [t \in Threads |-> ThreadInit]
  /\ locint = [t \in Threads |-> ZeroIntegrals]
  /\ sumint = ZeroIntegrals
  /\ cnt = [cnt2 |-> 0, cnt3 |-> 0, cnt4 |-> 0]
  /\ TotalTime = [running |-> FALSE, laps |-> 0]
  /\ red = RedInit
  /\ saved = [loops |-> {}, twice |-> {}, full |-> 0]
  /\ hist = HistInit

\* unsigned long int steps = dist(urandom), the construction of sumint and
\* TotalTime.Start(); the second of two runs compared is one whose seed came
\* out as that of the first
SeedAndStart ==
  /\ phase = "constructed"
  /\ steps' \in IF prev = <<>> THEN Seeds ELSE {prev.steps}
  /\ TotalTime' = [running |-> TRUE, laps |-> 0]
  /\ phase' = "start"
  /\ UNCHANGED <<par, num_threads, all_grid, all_rd, I, frob, sel, jk, prev, locrng, next_loop,
                 th, locint, sumint, cnt, red, saved, hist>>

\* What a run ends with: the global accumulator, the counters, the outputs
\* written and the draws, kernel calls and reductions its thread went through.
Outcome ==
  [steps |-> steps, sumint |-> sumint, cnt |-> cnt, red |-> red, saved |-> saved,
   th |-> th, checks |-> hist.checks]

\* The program is run once more on the same inputs.
Rerun ==
  /\ phase = "end"
  /\ prev = <<>>
  /\ prev' = Outcome
  /\ steps' = 0
  /\ sel' = NoSelection
  /\ jk' = JKInit
  /\ phase' = "construct"
  /\ next_loop' = 0
  /\ th' = [t \in Threads |-> ThreadInit]
  /\ locint' = [t \in Threads |-> ZeroIntegrals]
  /\ sumint' = ZeroIntegrals
  /\ cnt' = [cnt2 |-> 0, cnt3 |-> 0, cnt4 |-> 0]
  /\ TotalTime' = [running |-> FALSE, laps |-> 0]
  /\ red' = RedInit
  /\ saved' = [loops |-> {}, twice |-> {}, full |-> 0]
  /\ hist' = HistInit
  /\ UNCHANGED <<par, num_threads, all_grid, all_rd, I, frob, locrng>>

NextSeed ==
  \/ Construct
  \/ ProductWeights12_34
  \/ Fill12_34
  \/ ProductWeights12_23
  \/ Fill12_23
  \/ SeedAndStart
  \/ StartParallel
  \/ \E t \in Threads : ForLoop(t)
  \/ \E t \in Threads : ForExit(t)
  \/ \E t \in Threads : PrimaryCell(t)
  \/ \E t \in Threads : DrawJ(t)
  \/ \E t \in Threads : DrawK(t)
  \/ \E t \in Threads : DrawL(t)
  \/ \E t \in Threads : Frobenius(t)
  \/ \E t \in Threads : SumInts(t)
  \/ \E t \in Threads : SaveLoop(t)
  \/ EndParallel
  \/ Report
  \/ Rerun

SpecSeed == InitSeed /\ [][NextSeed]_vars

\* --------------------------------------------- the seeds of the generators
\* sizeof(unsigned long int): steps and the argument of gsl_rng_set
LongBytes == 8

\* Byte i of an int n >= 0, least significant first.
Byte(n, i) ==
  CASE i = 0 -> n % 256
    [] i = 1 -> (n \div 256) % 256
    [] i = 2 -> (n \div 65536) % 256
    [] i = 3 -> (n \div 16777216) % 256
    [] OTHER -> 0

\* An int n >= 0 converted to an unsigned integer of len bytes.
BytesOf(n, len) == [i \in 0..(len - 1) |-> Byte(n, i)]

\* An unsigned int of bytes b0..b3 converted to unsigned long.
ULong(b0, b1, b2, b3) ==
  [i \in 0..(LongBytes - 1) |->
     CASE i = 0 -> b0 [] i = 1 -> b1 [] i = 2 -> b2 [] i = 3 -> b3 [] OTHER -> 0]

\* Column k of the product a*b before the carry: the sum of a[i]*b[k-i].
RECURSIVE Column(_, _, _, _)
Column(a, b, k, i) == IF i > k THEN 0 ELSE a[i] * b[k - i] + Column(a, b, k, i + 1)

\* The carry into column k.
RECURSIVE Carry(_, _, _)
Carry(a, b, k) ==
  IF k = 0 THEN 0 ELSE (Column(a, b, k - 1, 0) + Carry(a, b, k - 1)) \div 256

\* Unsigned multiplication in len bytes: the product modulo 256^len.
Mul(a, b, len) ==
  [k \in 0..(len - 1) |-> (Column(a, b, k, 0) + Carry(a, b, k)) % 256]

\* the seed with an unsigned long of four bytes
seed_of_Long32(st, thread) ==
  LET m == Mul(st, BytesOf(thread + 1, 4), 4)
  IN [i \in 0..(LongBytes - 1) |-> IF i < 4 THEN m[i] ELSE 0]

\* steps*(thread+1), the argument of gsl_rng_set: thread+1 is an int
\* converted to unsigned long, the product is taken in unsigned long
seed_of(st, thread) == Mul(st, BytesOf(thread + 1, LongBytes), LongBytes)

\* Values dist(1, max of unsigned int) can give: 1, 2, 3, 2^16, 2^31,
\* 2^31 + 1, 2^32 - 2, 2^32 - 1.
SeedValues ==
  { ULong(1, 0, 0, 0), ULong(2, 0, 0, 0), ULong(3, 0, 0, 0), ULong(0, 0, 1, 0),
    ULong(0, 0, 0, 128), ULong(1, 0, 0, 128), ULong(254, 255, 255, 255),
    ULong(255, 255, 255, 255) }

\* The threads whose generators are followed: the first ones, and the last
\* ones an int nthread allows.
ThreadSample == {0, 1, 2, 3, 65535, 2147483645}

\* A team too large to follow thread by thread comes to the seed: only the
\* generators of the threads of ThreadSample are followed.
InitRng ==
  /\ par = Params(2147483646, 1, 1, 1, 1)
  /\ num_threads = 2147483646
  /\ all_grid = <<GridOne, GridOne>>
  /\ all_rd = AllDraws(DrawsZero)
  /\ I = <<1, 1, 1, 1>>
  /\ frob = BOOLEAN
  /\ sel = Select(I)
  /\ jk = <<>>
  /\ steps = 0
  /\ prev = <<>>
  /\ locrng = [t \in ThreadSample |-> <<>>]
  /\ phase = "constructed"
  /\ next_loop = 0
  /\ th = <<>>
  /\ locint = <<>>
  /\ sumint = ZeroIntegrals
  /\ cnt = [cnt2 |-> 0, cnt3 |-> 0, cnt4 |-> 0]
  /\ TotalTime = [running |-> FALSE, laps |-> 0]
  /\ red = RedInit
  /\ saved = [loops |-> {}, twice |-> {}, full |-> 0]
  /\ hist = <<>>

\* unsigned long int steps = dist(urandom), TotalTime.Start() and the entry
\* of the parallel region
DrawSteps ==
  /\ phase = "constructed"
  /\ steps = 0
  /\ steps' \in SeedValues
  /\ TotalTime' = [running |-> TRUE, laps |-> 0]
  /\ phase' = IF TeamAccepted(num_threads, par) THEN "parallel" ELSE "aborted"
  /\ UNCHANGED <<par, num_threads, all_grid, all_rd, I, frob, sel, jk, prev, locrng,
                 next_loop, th, locint, sumint, cnt, red, saved, hist>>

\* gsl_rng_set(locrng, steps*(thread+1)) of thread t
SetRng(t) ==
  /\ phase = "parallel"
  /\ t < num_threads
  /\ locrng[t] = <<>>
  /\ locrng' = [locrng EXCEPT ![t] = seed_of(steps, t)]
  /\ UNCHANGED <<par, num_threads, all_grid, all_rd, I, frob, sel, jk, steps, prev,
                 phase, next_loop, th, locint, sumint, cnt, TotalTime, red, saved, hist>>

NextRng ==
  \/ DrawSteps
  \/ \E t \in ThreadSample : SetRng(t)

SpecRng == InitRng /\ [][NextRng]_vars

\* The steps of one thread of the team.
ThreadNext(t) ==
  \/ ForLoop(t)
  \/ ForExit(t)
  \/ PrimaryCell(t)
  \/ DrawJ(t)
  \/ DrawK(t)
  \/ DrawL(t)
  \/ Frobenius(t)
  \/ SumInts(t)
  \/ SaveLoop(t)

\* Fair scheduling: a thread that can take a step is not held back for ever,
\* and the master thread goes on once the team has finished.
Fairness ==
  /\ WF_vars(StartParallel)
  /\ WF_vars(0 \in Threads /\ ThreadNext(0))
  /\ WF_vars(1 \in Threads /\ ThreadNext(1))
  /\ WF_vars(EndParallel)
  /\ WF_vars(Report)

\* The runs followed to their end under fair scheduling: those of one thread
\* and those of two threads over MaxLoopsPar iterations.
InitFair == Init /\ par.max_loops <= MaxLoopsOne

FairSpec == InitFair /\ [][Next]_vars /\ Fairness

\* ================================================================ claims
SameSums(a, b) == a.c2 = b.c2 /\ a.c3 = b.c3 /\ a.c4 = b.c4

\* C1: when the parallel region has ended and sumint is not yet normalized,
\* sumint equals the element-wise sum of the local accumulators of all
\* executed outer iterations, each of them folded in exactly once.
C1_SumintIsSumOfLocals ==
  phase = "report" => SameSums(sumint, hist.folded)

\* The threads inside the reduction section.
C2_Inside == {t \in Threads : InCritical(th[t].pc)}

C2_SharedChanged == sumint' # sumint \/ cnt' # cnt \/ TotalTime' # TotalTime

C2_StepInside(t) ==
  /\ th[t].pc \in {"critical", "sum_ints", "save"}
  /\ th'[t] # th[t]
  /\ \A u \in Threads \ {t} : th'[u] = th[u] /\ ~InCritical(th[u].pc)

\* C2: at most one thread at a time is inside the reduction section, and
\* while the threads run, sumint, cnt2/cnt3/cnt4 and TotalTime change only in
\* a step of a thread that is at or inside the section while no other thread
\* is inside it.
C2_CriticalSection ==
  /\ [](Cardinality(C2_Inside) <= 1)
  /\ [][(phase = "parallel" /\ phase' = "parallel" /\ C2_SharedChanged)
          => \E t \in Threads : C2_StepInside(t)]_vars

\* C2 witness: one thread is inside the section, having folded a nonzero
\* local accumulator, while another waits at its entry.
C2_Witness ==
  \E t, u \in Threads :
    /\ t # u
    /\ th[t].pc = "save"
    /\ th[u].pc = "critical"
    /\ sumint.c2 > 0
    /\ locint[u].c2 > 0

\* An outer iteration starts and is not skipped.
StartsSampling(t) ==
  /\ th[t].pc = "for"
  /\ next_loop' = next_loop + 1
  /\ th'[t].pc # "for"

\* C3: once ten reductions in total have been found converged, every outer
\* iteration that starts afterwards is skipped, whichever thread runs it.
C3_SkippedAfterTenInTotal ==
  [][\A t \in Threads :
       (hist.converged >= ConvergenceLimit) => ~StartsSampling(t)]_vars

C5_Ordered(r) ==
  /\ r.cell_attempt2 >= r.used_cell2 /\ r.used_cell2 >= 0
  /\ r.cell_attempt3 >= r.used_cell3 /\ r.used_cell3 >= 0
  /\ r.cell_attempt4 >= r.used_cell4 /\ r.used_cell4 >= 0

C5_AttemptsBoundUsed ==
  /\ \A t \in Threads : C5_Ordered(th[t])
  /\ C5_Ordered(red)

\* C5 witness: the run has ended with accepted draws at every level and
\* with failed draws at every level.
C5_Witness ==
  /\ phase = "end"
  /\ red.used_cell4 > 0
  /\ red.cell_attempt2 > red.used_cell2
  /\ red.cell_attempt3 > red.used_cell3
  /\ red.cell_attempt4 > red.used_cell4

C7_ThirdIff(t) ==
  (th'[t].cell_attempt3 # th[t].cell_attempt3) =>
    ((th'[t].calls_third = th[t].calls_third + 1)
       <=> (th'[t].x_j = 0 /\ th'[t].x_k = 0 /\ th'[t].pid_j # th'[t].pid_k))

C7_FourthIff(t) ==
  (th'[t].cell_attempt4 # th[t].cell_attempt4) =>
    ((th'[t].calls_fourth = th[t].calls_fourth + 1)
       <=> (/\ th'[t].x_j = 0 /\ th'[t].x_k = 0 /\ th'[t].x_l = 0
            /\ th'[t].pid_j # th'[t].pid_k
            /\ th'[t].pid_j # th'[t].pid_l
            /\ th'[t].pid_k # th'[t].pid_l))

\* C7: a k draw invokes third iff the j and k draws succeeded and
\* pid_j # pid_k; an l draw invokes fourth iff the three draws succeeded and
\* pid_j, pid_k, pid_l are pairwise distinct. The ids of the primary
\* particles play no part.
C7_KernelsIffDistinct ==
  [][\A t \in Threads : C7_ThirdIff(t) /\ C7_FourthIff(t)]_vars

\* C7 witness: fourth has just been invoked with pid_j, pid_k and pid_l all
\* ids of primary particles of the cell.
C7_Witness ==
  \E t \in Threads :
    LET prim_ids == particle_list(th[t].prim_id, grid1).id_list
        ids == {prim_ids[n] : n \in DOMAIN prim_ids}
    IN /\ th[t].calls_fourth > 0
       /\ th[t].x_l = 0
       /\ th[t].cell_attempt4 > 0
       /\ th[t].used_cell4 = th[t].cell_attempt4
       /\ {th[t].pid_j, th[t].pid_k} \subseteq ids

\* A step in which the draw at level 2, 3, 4 failed.
C8_Failed2(t) ==
  th'[t].cell_attempt2 # th[t].cell_attempt2 /\ th'[t].x_j = 1

C8_Failed3(t) ==
  /\ th'[t].cell_attempt3 # th[t].cell_attempt3
  /\ (th'[t].x_k = 1 \/ th'[t].pid_j = th'[t].pid_k)

C8_Failed4(t) ==
  /\ th'[t].cell_attempt4 # th[t].cell_attempt4
  /\ (th'[t].x_l = 1 \/ th'[t].pid_l = th'[t].pid_j \/ th'[t].pid_l = th'[t].pid_k)

C8_NoKernel(t) ==
  /\ th'[t].calls_second = th[t].calls_second
  /\ th'[t].calls_third = th[t].calls_third
  /\ th'[t].calls_fourth = th[t].calls_fourth
  /\ locint'[t] = locint[t]

C8_FailedDrawStep(t) ==
  /\ C8_Failed2(t) =>
       /\ th'[t].cell_attempt2 = th[t].cell_attempt2 + 1
       /\ th'[t].used_cell2 = th[t].used_cell2
       /\ th'[t].cell_attempt3 = th[t].cell_attempt3
       /\ th'[t].cell_attempt4 = th[t].cell_attempt4
       /\ th'[t].pc \notin {"n3", "n4"}
       /\ C8_NoKernel(t)
  /\ C8_Failed3(t) =>
       /\ th'[t].cell_attempt3 = th[t].cell_attempt3 + 1
       /\ th'[t].used_cell3 = th[t].used_cell3
       /\ th'[t].cell_attempt4 = th[t].cell_attempt4
       /\ th'[t].pc # "n4"
       /\ C8_NoKernel(t)
  /\ C8_Failed4(t) =>
       /\ th'[t].cell_attempt4 = th[t].cell_attempt4 + 1
       /\ th'[t].used_cell4 = th[t].used_cell4
       /\ C8_NoKernel(t)

\* C8: a failed draw at level K (cell outside the grid, empty cell, or an id
\* collision at levels 3 and 4) increments cell_attemptK only: used_cellK,
\* the kernel calls and the attempts of the deeper levels stay as they were
\* and the thread does not enter a deeper loop; so used_cell2, used_cell3,
\* used_cell4 always equal the numbers of calls of second, third, fourth.
C8_FailedDrawsOnlyCounted ==
  /\ [](\A t \in Threads :
          /\ th[t].used_cell2 = th[t].calls_second
          /\ th[t].used_cell3 = th[t].calls_third
          /\ th[t].used_cell4 = th[t].calls_fourth)
  /\ [][\A t \in Threads : C8_FailedDrawStep(t)]_vars

\* C8 witness: a thread has had draws fail at each level, by an empty or
\* missing cell at level 2 and by a collision at level 4, and is about to
\* draw again at level 4.
C8_Witness ==
  \E t \in Threads :
    /\ th[t].cell_attempt2 > th[t].used_cell2
    /\ th[t].cell_attempt3 > th[t].used_cell3
    /\ th[t].cell_attempt4 > th[t].used_cell4
    /\ th[t].x_l = 0
    /\ th[t].pid_l \in {th[t].pid_j, th[t].pid_k}
    /\ th[t].pc = "n4"

\* Element e is the one the pair (Ia, Ib) is to select.
C9_Element(e, Ia, Ib) ==
  /\ (e = 0) <=> (Ia = 1 /\ Ib = 1)
  /\ (e = 1) <=> (Ia = 2 /\ Ib = 2)
  /\ (e = 2) <=> (Ia # Ib)

\* C9: for Ia, Ib in {1,2} every pair selector returns element 0 exactly
\* when Ia = Ib = 1, element 1 exactly when Ia = Ib = 2 and element 2
\* otherwise; the result is symmetric in (Ia, Ib) and the same for which_cf,
\* which_rd, which_survey and which_JK.
C9_PairSelectors ==
  sel # NoSelection =>
    /\ C9_Element(sel.cf12, I[1], I[2])
    /\ C9_Element(sel.cf13, I[1], I[3])
    /\ C9_Element(sel.cf24, I[2], I[4])
    /\ C9_Element(sel.rd13, I[1], I[3])
    /\ C9_Element(sel.rd24, I[2], I[4])
    /\ C9_Element(sel.survey_corr_12, I[1], I[2])
    /\ C9_Element(sel.survey_corr_23, I[2], I[3])
    /\ C9_Element(sel.survey_corr_34, I[3], I[4])
    /\ C9_Element(sel.JK12, I[1], I[2])
    /\ C9_Element(sel.JK23, I[2], I[3])
    /\ C9_Element(sel.JK34, I[3], I[4])
    /\ sel.cf12 = which_cf(I[2], I[1])
    /\ sel.rd13 = which_rd(I[3], I[1])
    /\ sel.survey_corr_34 = which_survey(I[4], I[3])
    /\ sel.JK23 = which_JK(I[3], I[2])
    /\ sel.cf12 = sel.JK12 /\ sel.cf12 = sel.survey_corr_12
    /\ sel.cf13 = sel.rd13

\* C9 witness: the constructor has selected one object of each kind in one
\* run: element 2 for (I1,I2), element 0 for (I1,I3), element 1 for (I2,I4).
C9_Witness ==
  /\ sel # NoSelection
  /\ jk.pc # "select"
  /\ sel.JK12 = 2
  /\ sel.cf13 = 0
  /\ sel.cf24 = 1

\* The table the fill loops are meant to leave: entry [bin_a*nbins + bin_b] is
\* the sum over the n_JK_filled regions of wa[reg,bin_a] * wb[reg,bin_b].
RECURSIVE C10_Sum(_, _, _, _, _)
C10_Sum(JKa, JKb, i, nbins, reg) ==
  IF reg = 0 THEN 0
  ELSE C10_Sum(JKa, JKb, i, nbins, reg - 1)
       + JKa.weights[(reg - 1) * nbins + (i \div nbins)]
         * JKb.weights[(reg - 1) * nbins + (i % nbins)]

C10_Table(JKa, JKb, nbins) ==
  [i \in 0..(nbins * nbins - 1) |-> C10_Sum(JKa, JKb, i, nbins, JKa.n_JK_filled)]

\* C10: whenever a fresh product-weight table is allocated, after its fill
\* loops every entry equals the sum over the regions of the products of the
\* weights, with nothing left of the prior contents of the memory.
C10_FreshTablesExact ==
  LET nbins == par.nbin * par.mbin
  IN /\ (jk.fresh34 /\ jk.pc \in {"pw23", "fill23", "done"}) =>
          jk.product_weights12_34
            = C10_Table(jk.all_JK[sel.JK12], jk.all_JK[sel.JK34], nbins)
     /\ (jk.fresh23 /\ jk.pc = "done") =>
          jk.product_weights12_23
            = C10_Table(jk.all_JK[sel.JK12], jk.all_JK[sel.JK23], nbins)

\* A step in which thread t has called second, third, fourth.
CalledSecond(t) == th'[t].calls_second = th[t].calls_second + 1

CalledThird(t) == th'[t].calls_third = th[t].calls_third + 1

CalledFourth(t) == th'[t].calls_fourth = th[t].calls_fourth + 1

Positive(p) == p.n > 0 /\ p.d > 0

\* C11: whenever second, third or fourth is called, the occupancy sln, tln or
\* fln that divides the probability is at least 1 and the probability p2, p3
\* or p4 passed is strictly positive.
C11_ProbabilitiesPositive ==
  [][\A t \in Threads :
       /\ CalledSecond(t) => (th'[t].sln >= 1 /\ Positive(th'[t].p2))
       /\ CalledThird(t) => (th'[t].tln >= 1 /\ Positive(th'[t].p3))
       /\ CalledFourth(t) => (th'[t].fln >= 1 /\ Positive(th'[t].p4))]_vars

\* C11 witness: fourth has been called on a chain whose j, k and l cells hold
\* more than one particle each, with p4 the product of the three ratios over
\* the occupancies.
C11_Witness ==
  \E t \in Threads :
    /\ th[t].calls_fourth > 0
    /\ th[t].x_l = 0
    /\ th[t].pid_l \notin {th[t].pid_j, th[t].pid_k}
    /\ th[t].sln >= 2 /\ th[t].tln >= 2 /\ th[t].fln >= 2
    /\ th[t].p4.n > 0
    /\ th[t].p4.d = PDen * PDen * PDen * grid1.np * th[t].sln * th[t].tln * th[t].fln

\* The proposal ratio the table returns with displacement delta.
DrawnP(draws, delta) == (CHOOSE dr \in draws : dr.delta = delta).p

\* The fraction p equals n/d.
SameProb(p, n, d) == p.n * d = n * p.d

\* The ratios of the draws of the chain thread t has just completed.
C16_P2draw(t) == DrawnP(random_cubedraw(rd13), th'[t].sec_id - th'[t].prim_id)

C16_P3draw(t) == DrawnP(random_xidraw(rd13), th'[t].thi_id - th'[t].prim_id)

C16_P4draw(t) == DrawnP(random_xidraw(rd24), th'[t].fou_id - th'[t].sec_id)

\* C16: the probability passed to second is p2draw/(grid1.np*sln), to third
\* p3draw*p2draw/(grid1.np*sln*tln) and to fourth
\* p4draw*p3draw*p2draw/(grid1.np*sln*tln*fln), with the ratios of the draws
\* of that same chain only, whatever the earlier iterations drew.
C16_ProbabilityOfChain ==
  [][\A t \in Threads :
       /\ CalledSecond(t) =>
            SameProb(th'[t].p2, C16_P2draw(t).n,
                     C16_P2draw(t).d * grid1.np * th'[t].sln)
       /\ CalledThird(t) =>
            SameProb(th'[t].p3, C16_P3draw(t).n * C16_P2draw(t).n,
                     C16_P3draw(t).d * C16_P2draw(t).d
                       * grid1.np * th'[t].sln * th'[t].tln)
       /\ CalledFourth(t) =>
            SameProb(th'[t].p4,
                     C16_P4draw(t).n * C16_P3draw(t).n * C16_P2draw(t).n,
                     C16_P4draw(t).d * C16_P3draw(t).d * C16_P2draw(t).d
                       * grid1.np * th'[t].sln * th'[t].tln * th'[t].fln)]_vars

\* C16 witness: a thread that has had draws fail at every level has then
\* called fourth, and holds p4 = 1/(PDen^3 * np * sln * tln * fln) of the
\* chain of three zero displacements it has just drawn.
C16_Witness ==
  \E t \in Threads :
    /\ th[t].calls_fourth >= 1
    /\ th[t].cell_attempt2 > th[t].used_cell2
    /\ th[t].cell_attempt3 > th[t].used_cell3
    /\ th[t].cell_attempt4 > th[t].used_cell4
    /\ th[t].x_j = 0 /\ th[t].x_k = 0 /\ th[t].x_l = 0
    /\ th[t].pid_l \notin {th[t].pid_j, th[t].pid_k}
    /\ th[t].pid_j # th[t].pid_k
    /\ th[t].sln * th[t].tln * th[t].fln > 1
    /\ SameProb(th[t].p4, 1,
                PDen * PDen * PDen * grid1.np * th[t].sln * th[t].tln * th[t].fln)

\* C13: under fair scheduling every thread leaves the parallel region and
\* the final report and save are reached; and an outer iteration is left
\* without sampling only when the convergence counter of the thread that
\* runs it equals 10.
C13_TerminatesAndSkipsOnlyConverged ==
  /\ <>(phase = "end" /\ saved.full = 1 /\ \A t \in Threads : th[t].pc = "done")
  /\ [][\A t \in Threads :
          (/\ th[t].pc = "for" /\ th'[t] # th[t]
           /\ next_loop' = next_loop + 1 /\ th'[t].pc = "for")
            => th[t].convergence_counter = ConvergenceLimit]_vars

\* C13 witness: a run has ended with its full output saved, its last
\* iteration skipped by a thread whose convergence counter had reached 10.
C13_Witness ==
  /\ phase = "end"
  /\ saved.full = 1
  /\ hist.executed # {}
  /\ hist.skipped # {}
  /\ \E t \in Threads : th[t].convergence_counter = ConvergenceLimit

\* A branching factor of zero, or nthread above the size of the team.
Inconsistent ==
  par.N2 = 0 \/ par.N3 = 0 \/ par.N4 = 0 \/ par.nthread > num_threads

\* C14: an inconsistent configuration is rejected at the start: the run never
\* gets to sample an outer iteration, to call a kernel or to write an output.
C14_InconsistentRejected ==
  Inconsistent =>
    /\ hist.executed = {}
    /\ \A t \in Threads : th[t].calls_second = 0
    /\ saved.loops = {} /\ saved.full = 0

\* C15: every executed outer iteration writes its per-loop output once,
\* under its own number, and no other iteration does; a thread that is about
\* to begin an iteration holds a local accumulator that is all zeros, so the
\* output of an iteration holds what that iteration sampled and no more.
C15_OneOutputPerExecutedLoop ==
  /\ saved.twice = {}
  /\ saved.loops \subseteq hist.executed
  /\ saved.loops \cap hist.skipped = {}
  /\ \A t \in Threads :
       /\ th[t].pc = "for" => locint[t] = ZeroIntegrals
       /\ th[t].pc = "save" => (th[t].n_loops \in hist.executed \ saved.loops)
  /\ phase \in {"report", "end"} => saved.loops = hist.executed

\* C15 witness: a run has ended in which several iterations were executed,
\* with nonzero contributions, and a later one was skipped.
C15_Witness ==
  /\ phase = "end"
  /\ Cardinality(hist.executed) >= 2
  /\ hist.skipped # {}
  /\ saved.loops = hist.executed
  /\ hist.folded.c2 > 0

\* The sum of the particle counts of the first n filled cells of a grid.
RECURSIVE C17_Particles(_, _)
C17_Particles(grid, n) ==
  IF n = 0 THEN 0
  ELSE C17_Particles(grid, n - 1) + grid.c[grid.filled[n]].np

\* C17: at the end of the run, with E the number of outer iterations that
\* were not skipped and P the sum of the particle counts of the filled cells
\* of grid1, tot_pairs = E*P*N2, tot_triples = tot_pairs*N3 and
\* tot_quads = tot_triples*N4, however many draws failed or collided.
C17_TotalsAreAttempts ==
  phase \in {"report", "end"} =>
    /\ red.tot_pairs
         = Cardinality(hist.executed) * C17_Particles(grid1, grid1.nf) * par.N2
    /\ red.tot_triples = red.tot_pairs * par.N3
    /\ red.tot_quads = red.tot_triples * par.N4

\* C17 witness: a run with branching factors above 1 has ended with nonzero
\* totals, some of its draws of every level having failed or collided.
C17_Witness ==
  /\ phase = "end"
  /\ par.N2 > 1 /\ par.N3 > 1 /\ par.N4 > 1
  /\ red.tot_quads > 0
  /\ red.cell_attempt2 > red.used_cell2
  /\ red.cell_attempt3 > red.used_cell3
  /\ red.cell_attempt4 > red.used_cell4
  /\ red.used_cell4 > 0

\* C18: a convergence check is made in outer iteration n if and only if n is
\* executed and (n+1) mod nthread = 0; the convergence counter of a thread
\* changes in no other iteration; so a run makes at most
\* floor(max_loops / nthread) checks.
C18_ChecksEveryNthread ==
  /\ [](/\ hist.checked \subseteq {n \in hist.executed : (n + 1) % par.nthread = 0}
        /\ {n \in saved.loops : (n + 1) % par.nthread = 0} \subseteq hist.checked
        /\ hist.checks = Cardinality(hist.checked)
        /\ hist.checks <= par.max_loops \div par.nthread)
  /\ [][\A t \in Threads :
          th'[t].convergence_counter # th[t].convergence_counter
            => /\ th[t].n_loops \in hist'.checked \ hist.checked
               /\ (th[t].n_loops + 1) % par.nthread = 0]_vars

\* C18 witness: a run with nthread = 2 has ended with floor(max_loops/2)
\* checks, all in iterations of odd number, the even ones executed unchecked.
C18_Witness ==
  /\ phase = "end"
  /\ par.nthread = 2
  /\ hist.checks = par.max_loops \div par.nthread
  /\ hist.checked # {}
  /\ hist.executed \ hist.checked # {}
  /\ \E t \in Threads : th[t].convergence_counter > 0

\* C19: the convergence counter of every thread starts at 0, stays within
\* 0..10, and changes only by +1, in the check of an outer iteration (one
\* check per iteration): it never decreases and is never reset.
C19_CounterOnlyClimbs ==
  /\ (phase = "start" => \A t \in Threads : th[t].convergence_counter = 0)
  /\ [](\A t \in Threads : th[t].convergence_counter \in 0..ConvergenceLimit)
  /\ [][\A t \in Threads :
          th'[t].convergence_counter # th[t].convergence_counter
            => /\ th'[t].convergence_counter = th[t].convergence_counter + 1
               /\ th[t].pc = "critical"
               /\ th'[t].pc = "sum_ints"]_vars

\* C19 witness: a counter has reached 10 in a run one of whose earlier checks
\* did not converge: the ten converged checks were not consecutive.
C19_Witness ==
  /\ ~hist.all_converged
  /\ hist.checks > ConvergenceLimit
  /\ \E t \in Threads : th[t].convergence_counter = ConvergenceLimit

\* C20: a reduction adds the local accumulator to the global one while the
\* local one is not yet normalized, so that the global one holds
\* un-normalized sums until the end; the global accumulator is normalized
\* once and its full output written once, and both only when every thread has
\* completed its last reduction.
C20_NormalizedOnceAtTheEnd ==
  /\ [](phase # "end" => (sumint.norm = <<>> /\ saved.full = 0))
  /\ [](phase = "end" => (Len(sumint.norm) = 1 /\ saved.full = 1))
  /\ [][(sumint'.norm # sumint.norm \/ saved'.full # saved.full)
          => (/\ \A t \in Threads : th[t].pc = "done" /\ locint[t] = ZeroIntegrals
              /\ saved.loops = hist.executed)]_vars
  /\ [][\A t \in Threads :
          (th[t].pc \in {"critical", "sum_ints"} /\ th'[t] # th[t])
            => (locint[t].norm = <<>> /\ th[t].n_loops \notin saved.loops)]_vars

\* C20 witness: a run of two threads has ended with the sums of several
\* reductions in the global accumulator, normalized by the reduced totals.
C20_Witness ==
  /\ phase = "end"
  /\ num_threads = 2
  /\ Cardinality(saved.loops) >= 2
  /\ sumint.c2 > 0
  /\ sumint.norm = <<(<<red.tot_pairs, red.tot_triples, red.tot_quads>>)>>
  /\ saved.full = 1

\* C12: with nthread = 1, a run on the same inputs and the same seed as an
\* earlier run ends with the same global accumulator, the same counters, the
\* same written outputs and the same draws, kernel calls and reductions.
C12_SameSeedSameOutcome ==
  (phase = "end" /\ prev # <<>>) => Outcome = prev

\* C12 witness: the second of two runs of one thread on one seed has ended,
\* and both have called the kernel fourth.
C12_Witness ==
  /\ phase = "end"
  /\ prev # <<>>
  /\ par.nthread = 1
  /\ steps = prev.steps
  /\ th[0].calls_fourth > 0
  /\ prev.th[0].calls_fourth > 0

\* C21: for all (I1,I2,I3,I4) in {1,2}^4 the stored table of JK12 is taken
\* for w12*w34 exactly when which_JK selects one weights object for (I1,I2)
\* and (I3,I4), and for w12*w23 exactly when it selects one object for (I1,I2)
\* and (I2,I3); otherwise a fresh table is built.
C21_ReuseIffSameWeights ==
  /\ jk # <<>> /\ jk.pc \in {"fill34", "pw23", "fill23", "done"} =>
       /\ jk.fresh34 <=> (which_JK(I[1], I[2]) # which_JK(I[3], I[4]))
       /\ jk.fresh34 <=> (sel.JK12 # sel.JK34)
       /\ ~jk.fresh34 =>
            jk.product_weights12_34 = jk.all_JK[sel.JK12].product_weights
  /\ jk # <<>> /\ jk.pc \in {"fill23", "done"} =>
       /\ jk.fresh23 <=> (which_JK(I[1], I[2]) # which_JK(I[2], I[3]))
       /\ jk.fresh23 <=> (sel.JK12 # sel.JK23)
       /\ ~jk.fresh23 =>
            jk.product_weights12_23 = jk.all_JK[sel.JK12].product_weights

\* C21 witness: the constructor has ended with the stored table taken for
\* w12*w34 although (I3,I4) is (I1,I2) in the other order, and a fresh table
\* built for w12*w23.
C21_Witness ==
  /\ jk # <<>>
  /\ jk.pc = "done"
  /\ I[1] # I[3] /\ I[1] = I[4] /\ I[2] = I[3]
  /\ ~jk.fresh34
  /\ jk.fresh23

\* C22: for every seed in [1, 2^32 - 1] and threads t # u below nthread, the
\* seeds steps*(t+1) and steps*(u+1) given to the generators, computed in
\* unsigned 64-bit arithmetic, are distinct and nonzero.
C22_SeedsDistinctNonzero ==
  \A t \in DOMAIN locrng : \A u \in DOMAIN locrng :
    (locrng[t] # <<>> /\ locrng[u] # <<>>) =>
      /\ locrng[t] # BytesOf(0, LongBytes)
      /\ (t # u => locrng[t] # locrng[u])

\* C22 witness: with steps = 2^31 the generators of threads 0 and 2, whose
\* seeds agree in their low four bytes, and that of the last thread followed
\* (seed 2^62 - 2^32) have been set.
C22_Witness ==
  /\ DOMAIN locrng = ThreadSample
  /\ phase = "parallel"
  /\ steps = ULong(0, 0, 0, 128)
  /\ \A t \in {0, 2, 2147483645} : locrng[t] # <<>>
  /\ locrng[0] = ULong(0, 0, 0, 128)
  /\ locrng[2][4] = 1
  /\ \A i \in 0..3 : locrng[2][i] = locrng[0][i]
  /\ locrng[2147483645] = [i \in 0..7 |-> CASE i < 4 -> 0 [] i = 7 -> 63 [] OTHER -> 255]

\* A step in which thread t calls frobenius_difference_sum.
C23_CheckStep(t) ==
  /\ th[t].pc = "critical"
  /\ th'[t].pc = "sum_ints"
  /\ IsCheckLoop(th[t].n_loops, par)

\* C23: whenever frobenius_difference_sum is called in outer iteration n, the
\* global accumulator holds the contributions of exactly n outer iterations
\* reduced before, whatever nthread and the schedule.
C23_CheckSeesNLoops ==
  [][\A t \in Threads :
       C23_CheckStep(t) =>
         /\ Cardinality(saved.loops) = th[t].n_loops
         /\ SameSums(sumint, hist.folded)]_vars

\* C23 witness: a convergence check has been made in the second iteration of
\* a run of two threads.
C23_Witness ==
  /\ num_threads = 2
  /\ 1 \in hist.checked
  /\ \E t \in Threads : th[t].n_loops = 1 /\ th[t].pc = "sum_ints"

\* What particle_list writes for the n-th filled cell of grid1 stays within
\* buffers of mnp = grid1.maxnp entries.
C24_WithinScratch(n) ==
  LET cell == grid1.c[grid1.filled[n]]
      l == particle_list(grid1.filled[n], grid1)
  IN /\ l.no_particles \in 1..grid1.maxnp
     /\ DOMAIN l.id_list = 0..(l.no_particles - 1)
     /\ \A k \in DOMAIN l.id_list : k < grid1.maxnp /\ l.id_list[k] = cell.start + k

\* C24: for every filled cell of grid1, particle_list returns pln in
\* 1..grid1.maxnp and writes only entries 0..pln-1 of prim_list and prim_ids,
\* prim_ids[n] = cell.start + n; no thread works on a primary cell with more
\* than maxnp particles, and the pln == 0 skip is never taken.
C24_PrimaryListFitsScratch ==
  /\ \A n \in 1..grid1.nf : C24_WithinScratch(n)
  /\ th # <<>> =>
       \A t \in Threads :
         /\ th[t].pc \in {"n2", "n3", "n4"} =>
              /\ th[t].pln \in 1..grid1.maxnp
              /\ th[t].pln = grid1.c[th[t].prim_id].np
         /\ th[t].pln = 0 =>
              (th[t].pc \in {"for", "n1", "done"} /\ th[t].n1 = 0
               /\ th[t].calls_second = 0)

\* C24 witness: a thread is in the draw loops of the second filled cell of
\* grid1, after a primary cell that fills the scratch buffers to the last
\* entry, and has called second.
C24_Witness ==
  \E t \in Threads :
    /\ grid1.nf >= 2 /\ grid1.maxnp >= 2
    /\ grid1.c[grid1.filled[1]].np = grid1.maxnp
    /\ th[t].n1 = 1
    /\ th[t].pc \in {"n2", "n3", "n4"}
    /\ th[t].pln = grid1.c[grid1.filled[2]].np
    /\ th[t].calls_second > 0

\* C25: whenever second is invoked, the divisors grid1.np1*sln1 and
\* grid1.np2*sln2 of the partitioned probabilities p21 and p22 are both
\* nonzero: the j cell drawn has a particle in each partition of the tracer.
C25_PartitionDivisorsNonzero ==
  [][\A t \in Threads :
       (phase = "parallel" /\ CalledSecond(t)) =>
         /\ grid1.np1 * th'[t].sln1 # 0
         /\ grid1.np2 * th'[t].sln2 # 0
         /\ th'[t].p21.d # 0 /\ th'[t].p22.d # 0]_vars

\* C25 witness: a thread has invoked second on a j cell drawn from a grid in
\* which both partitions hold particles, and the cell has none of partition 2.
C25_Witness ==
  /\ phase = "parallel"
  /\ grid1.np1 > 0 /\ grid1.np2 > 0
  /\ \E t \in Threads :
       /\ th[t].calls_second > 0
       /\ th[t].pc = "n3"
       /\ th[t].sln > 0 /\ th[t].sln2 = 0
       /\ th[t].p2.d > 0 /\ th[t].p22.d = 0

\* Thread t takes an outer iteration and skips it.
C26_SkipStep(t) ==
  /\ phase = "parallel"
  /\ th[t].pc = "for"
  /\ th'[t] # th[t]
  /\ hist'.skipped # hist.skipped

\* The counters of a thread that a skipped iteration leaves alone.
C26_Counters ==
  {"convergence_counter", "tot_pairs", "tot_triples", "tot_quads",
   "cell_attempt2", "cell_attempt3", "cell_attempt4",
   "used_cell2", "used_cell3", "used_cell4", "rng"}

\* C26: a skipped outer iteration, taken when the thread's convergence counter
\* is 10, leaves the global accumulator, the thread's local accumulator, the
\* counts cnt2/cnt3/cnt4, tot_pairs/tot_triples/tot_quads, the cell_attempt
\* and used_cell counters and the convergence counter unchanged, consumes no
\* random number and does not enter the critical section: the thread is back
\* at the head of the loop.
C26_SkippedIterationFrame ==
  [][\A t \in Threads :
       C26_SkipStep(t) =>
         /\ th[t].convergence_counter = ConvergenceLimit
         /\ sumint' = sumint /\ locint' = locint /\ cnt' = cnt
         /\ red' = red /\ saved' = saved
         /\ \A f \in C26_Counters : th'[t][f] = th[t][f]
         /\ th'[t].pc = "for"
         /\ \A u \in Threads \ {t} : th'[u] = th[u]]_vars

\* C26 witness: a thread that has sampled and reduced iterations has skipped
\* one and stands at the head of the loop.
C26_Witness ==
  /\ phase = "parallel"
  /\ hist.skipped # {}
  /\ \E t \in Threads :
       /\ th[t].pc = "for"
       /\ th[t].printtime > 0
       /\ th[t].n_loops \in hist.skipped
       /\ th[t].convergence_counter = ConvergenceLimit
       /\ th[t].tot_pairs > 0 /\ th[t].cell_attempt2 > 0

====
